---- MODULE Spec2Model ----
(***************************************************************************)
(* A model of src/app.py: the Sentinel-2 change-detection dashboard.       *)
(*                                                                         *)
(* One script run is: load_city -> compute_change (memoized) ->            *)
(* analyze_wards -> rendering.  Rasters are records [h, w, px] with px a   *)
(* function on (0..h-1) \X (0..w-1).  Band values are integers; index and   *)
(* change values are the float32 numbers the code computes, held as        *)
(* records [m, e]; the pixel indices of analyze_wards are computed in      *)
(* float64, the quotient rounded before the product; thresholds are        *)
(* hundredths.                                                             *)
(***************************************************************************)
EXTENDS Integers, Sequences, FiniteSets, TLC

VARIABLES
    city,          \* sidebar: selected city (line 38)
    year,          \* sidebar: analysis year (line 39)
    ndvi_thresh,   \* sidebar: vegetation threshold, in hundredths (line 41)
    ndbi_thresh,   \* sidebar: urban threshold, in hundredths (line 42)
    boundary,      \* the feature collection handed to analyze_wards
    bbox,          \* the query bounding box <<minx, miny, maxx, maxy>>
    catalog,       \* the scenes the remote STAC catalog holds
    cache,         \* st.cache_data store of compute_change: key -> result
    pc,            \* position of the running script
    before,        \* compute_change local: the signed before scene
    after,         \* compute_change local: the signed after scene
    bands,         \* compute_change locals: the band rasters read so far
    result,        \* (ndvi_change, ndbi_change) as returned, or None
    ward_df,       \* rows of the ward table (empty until line 187 ran)
    zones,         \* analyze_wards locals zone_ndvi / zone_ndbi, per ward
    err,           \* the exception that ended the run, or None
    calls,         \* external calls of this run: searches, signs, reads
    searched,      \* history: the item lists this run's searches returned
    repeat,        \* history: this key had already completed at call time
    completed,     \* history: key -> the first result compute_change returned
    runs           \* number of script runs started

vars == <<city, year, ndvi_thresh, ndbi_thresh, boundary, bbox, catalog,
          cache, pc, before, after, bands, result, ward_df, zones, err,
          calls, searched, repeat, completed, runs>>

\* The absent value and the exceptions are records, as scenes and results are.
None == [none |-> TRUE]

-----------------------------------------------------------------------------
(* Bounds of the model.                                                    *)

MaxBand == 4      \* band values range over 0..MaxBand
MaxOut == 2       \* ward coordinates reach this far outside the bbox
MaxRuns == 4      \* script runs per behaviour

-----------------------------------------------------------------------------
(* Arithmetic helpers.                                                     *)

Min(a, b) == IF a <= b THEN a ELSE b
Max(a, b) == IF a >= b THEN a ELSE b

SetMin(S) == CHOOSE x \in S : \A y \in S : x <= y
SetMax(S) == CHOOSE x \in S : \A y \in S : x >= y

Abs(n) == IF n < 0 THEN -n ELSE n
Sign(n) == IF n < 0 THEN -1 ELSE 1

\* n / d rounded to the nearest integer, ties to the even one (n >= 0, d > 0):
\* the rounding of every IEEE operation.
RoundHalfEven(n, d) ==
    IF 2 * (n % d) > d \/ (2 * (n % d) = d /\ (n \div d) % 2 = 1) THEN n \div d + 1 ELSE n \div d

RECURSIVE Normalize(_, _, _)
\* n or d doubled until d <= n < 2d; e is the exponent of the first bit of n/d.
Normalize(n, d, e) ==
    IF n < d THEN Normalize(2 * n, d, e - 1)
    ELSE IF n >= 2 * d THEN Normalize(n, 2 * d, e + 1)
    ELSE [n |-> n, d |-> d, e |-> e]

-----------------------------------------------------------------------------
(* float32 (the dtype of the rasters, line 91).                            *)
(* A float32 is [m, e] with value m * 2^e: m is the signed 24-bit          *)
(* significand, 2^23 <= |m| < 2^24, and zero is [0, 0].  Every operation   *)
(* rounds its exact result to the nearest float32, ties to even.  The      *)
(* exponent range of the format is not modelled: band values are integers  *)
(* below 2^24, far from overflow and underflow.                            *)

F32Bits == 24

F32Zero == [m |-> 0, e |-> 0]

F32Neg(f) == [m |-> -f.m, e |-> f.e]

RECURSIVE F32Widen(_, _)
\* m * 2^e, m > 0, with m doubled until it has 24 bits.
F32Widen(m, e) == IF m >= 2 ^ (F32Bits - 1) THEN [m |-> m, e |-> e] ELSE F32Widen(2 * m, e - 1)

RECURSIVE ExtraBits(_, _)
\* The number of bits of n beyond 24.
ExtraBits(n, k) == IF n \div 2 ^ k < 2 ^ F32Bits THEN k ELSE ExtraBits(n, k + 1)

\* The float32 nearest to sign * n * 2^e, for an integer n > 0.
F32Round(sign, n, e) ==
    LET k == ExtraBits(n, 0)
        m == RoundHalfEven(n, 2 ^ k)
        f == IF m = 2 ^ F32Bits THEN [m |-> 2 ^ (F32Bits - 1), e |-> e + k + 1]
             ELSE F32Widen(m, e + k)
    IN  [m |-> sign * f.m, e |-> f.e]

RECURSIVE QuotientInt(_, _, _, _)
\* acc extended by the next n bits of the binary expansion of r / d, and
\* what is left of r.
QuotientInt(r, d, n, acc) ==
    IF n = 0 THEN [q |-> acc, r |-> r]
    ELSE LET bit  == IF 2 * r >= d THEN 1 ELSE 0
             rest == 2 * r - bit * d
             next == 2 * acc + bit
         IN  QuotientInt(rest, d, n - 1, next)

\* The float32 nearest to n / d, for integers n >= 0 and d > 0: 26 bits of
\* the quotient and a sticky bit for what follows, rounded.
F32Div(n, d) ==
    IF n = 0 THEN F32Zero
    ELSE LET s      == Normalize(n, d, 0)
             first  == s.n - s.d
             t      == QuotientInt(first, s.d, F32Bits + 1, 1)
             sticky == IF t.r # 0 THEN 1 ELSE 0
         IN  F32Round(1, 2 * t.q + sticky, s.e - F32Bits - 2)

\* a + b for non-zero floats with a.e >= b.e: b is shifted to the exponent of
\* a with three more bits, the last of them sticky, and the sum is rounded.
F32AddOrdered(a, b) ==
    LET k      == Min(a.e - b.e, F32Bits + 3)
        whole  == (Abs(b.m) * 8) \div 2 ^ k
        sticky == IF (Abs(b.m) * 8) % 2 ^ k # 0 /\ whole % 2 = 0 THEN 1 ELSE 0
        sum    == a.m * 8 + Sign(b.m) * (whole + sticky)
    IN  IF sum = 0 THEN F32Zero ELSE F32Round(Sign(sum), Abs(sum), a.e - 3)

F32Add(a, b) ==
    IF a.m = 0 THEN b
    ELSE IF b.m = 0 THEN a
    ELSE IF a.e >= b.e THEN F32AddOrdered(a, b) ELSE F32AddOrdered(b, a)

\* The float32 a - b.
F32Sub(a, b) == F32Add(a, F32Neg(b))

\* a < b.
F32Less(a, b) ==
    IF a.m <= 0 /\ b.m >= 0 THEN a.m < b.m
    ELSE IF a.m >= 0 /\ b.m <= 0 THEN FALSE
    ELSE IF a.m > 0 THEN a.e < b.e \/ (a.e = b.e /\ a.m < b.m)
    ELSE a.e > b.e \/ (a.e = b.e /\ a.m < b.m)

\* The positions of the threshold sliders (lines 41-42): 0.10 to 0.40 in
\* steps of 0.05, in hundredths.
ThreshInputs == {10, 15, 20, 25, 30, 35, 40}

\* float32(t / 100) for the slider positions, evaluated once.
ThreshTable == [t \in ThreshInputs |-> F32Div(t, 100)] @@ <<>>

\* A threshold t (hundredths) as numpy compares it with a float32 raster:
\* float32(t / 100).
F32Thresh(t) == IF t \in ThreshInputs THEN ThreshTable[t] ELSE F32Div(t, 100)

-----------------------------------------------------------------------------
(* float64 (the Python floats of lines 147-155).                           *)
(* A positive float is [m, e]: m the 53 bits of its mantissa, first bit 1,  *)
(* and e the exponent of the last bit, so that its value is m * 2^e.       *)

F64Bits == 53

RECURSIVE Reverse(_)
Reverse(s) == IF s = <<>> THEN <<>> ELSE Append(Reverse(Tail(s)), Head(s))

RECURSIVE BitsValue(_)
BitsValue(bits) ==
    IF bits = <<>> THEN 0 ELSE 2 * BitsValue(SubSeq(bits, 1, Len(bits) - 1)) + bits[Len(bits)]

RECURSIVE QuotientBits(_, _, _)
\* The next n bits of the binary expansion of r / d, for 0 <= r < d.
QuotientBits(r, d, n) ==
    IF n = 0 THEN <<>>
    ELSE LET bit == IF 2 * r >= d THEN 1 ELSE 0
         IN  <<bit>> \o QuotientBits(2 * r - bit * d, d, n - 1)

RECURSIVE Remainder(_, _, _)
\* What is left of r / d after those n bits.
Remainder(r, d, n) ==
    IF n = 0 THEN r
    ELSE LET bit == IF 2 * r >= d THEN 1 ELSE 0
         IN  Remainder(2 * r - bit * d, d, n - 1)

RECURSIVE IncrementLsb(_)
IncrementLsb(bits) ==
    IF bits = <<>> THEN <<1>>
    ELSE IF Head(bits) = 0 THEN <<1>> \o Tail(bits)
    ELSE <<0>> \o IncrementLsb(Tail(bits))

\* bits + 1, the first bit being the most significant.
Increment(bits) == Reverse(IncrementLsb(Reverse(bits)))

RECURSIVE CarryBits(_)
CarryBits(c) == IF c = 0 THEN <<>> ELSE <<c % 2>> \o CarryBits(c \div 2)

RECURSIVE TimesLsb(_, _, _)
TimesLsb(bits, k, carry) ==
    IF bits = <<>> THEN CarryBits(carry)
    ELSE LET t == Head(bits) * k + carry
         IN  <<t % 2>> \o TimesLsb(Tail(bits), k, t \div 2)

\* bits * k for an integer k > 0, the first bit being the most significant.
Times(bits, k) == Reverse(TimesLsb(Reverse(bits), k, 0))

\* The float nearest to bits * 2^e (ties to even), for at least 53 bits.
RoundBits(bits, e) ==
    LET keep == SubSeq(bits, 1, F64Bits)
        rest == SubSeq(bits, F64Bits + 1, Len(bits))
        up   == /\ rest # <<>>
                /\ rest[1] = 1
                /\ \/ \E i \in 2 .. Len(rest) : rest[i] = 1
                   \/ keep[F64Bits] = 1
        m    == IF up THEN Increment(keep) ELSE keep
    IN  IF Len(m) > F64Bits
        THEN [m |-> SubSeq(m, 1, F64Bits), e |-> e + Len(rest) + 1]
        ELSE [m |-> m, e |-> e + Len(rest)]

\* The float n / d for integers n > 0, d > 0: 53 bits of the quotient, one
\* more bit and a sticky bit for what follows, rounded.
FloatDiv(n, d) ==
    LET s    == Normalize(n, d, 0)
        bits == <<1>> \o QuotientBits(s.n - s.d, s.d, F64Bits - 1)
        r    == Remainder(s.n - s.d, s.d, F64Bits - 1)
        tail == <<IF 2 * r >= s.d THEN 1 ELSE 0, IF 2 * r # s.d /\ r # 0 THEN 1 ELSE 0>>
    IN  RoundBits(bits \o tail, s.e - (F64Bits - 1) - 2)

\* The float f * k for a float f > 0 and an integer k > 0.
FloatTimes(f, k) == RoundBits(Times(f.m, k), f.e)

\* Python int() of a float f > 0: the bits above the binary point.
FloatTrunc(f) ==
    IF f.e >= 0 THEN BitsValue(f.m) * 2 ^ f.e
    ELSE IF -f.e >= F64Bits THEN 0
    ELSE BitsValue(SubSeq(f.m, 1, F64Bits + f.e))

\* int(n / d * k) for integers n, k and d > 0: the quotient is rounded to a
\* float before it is multiplied, the product is rounded, and int() truncates
\* toward zero.  (int(1 / 49 * 49) is 0: the product is 0.9999999999999999.)
FloatIndex(n, d, k) ==
    IF n = 0 \/ k = 0 THEN 0
    ELSE Sign(n) * Sign(k) * FloatTrunc(FloatTimes(FloatDiv(Abs(n), d), Abs(k)))

-----------------------------------------------------------------------------
(* Rasters (numpy 2-D arrays).                                             *)

Pixels(h, w) == (0 .. h - 1) \X (0 .. w - 1)

Uniform(h, w, v) == [h |-> h, w |-> w, px |-> [p \in Pixels(h, w) |-> v]]

\* A Python slice bound on an axis of length n: a negative bound counts from
\* the end, and every bound is clipped to 0..n.
PyBound(n, k) == IF k < 0 THEN Max(n + k, 0) ELSE Min(k, n)

\* The indices selected by a[start:stop] on an axis of length n.
PySlice(n, start, stop) == {i \in 0 .. n - 1 : PyBound(n, start) <= i /\ i < PyBound(n, stop)}

-----------------------------------------------------------------------------
(* Geometry (GeoJSON features, shapely bounds).                            *)
(* A Polygon's coordinates are a sequence of rings, a MultiPolygon's a     *)
(* sequence of polygons; a ring is a sequence of points <<x, y>>.          *)

RingPoints(ring) == {ring[k] : k \in 1 .. Len(ring)}

PolyPoints(poly) == UNION {RingPoints(poly[k]) : k \in 1 .. Len(poly)}

AllPoints(geom) ==
    IF geom.type = "Polygon"
    THEN PolyPoints(geom.coordinates)
    ELSE UNION {PolyPoints(geom.coordinates[k]) : k \in 1 .. Len(geom.coordinates)}

\* shapely's poly.bounds: (minx, miny, maxx, maxy) over every point.
Bounds(geom) ==
    LET pts == AllPoints(geom)
    IN  <<SetMin({p[1] : p \in pts}), SetMin({p[2] : p \in pts}),
          SetMax({p[1] : p \in pts}), SetMax({p[2] : p \in pts})>>

\* load_city lines 52-58: the exterior ring of a Polygon, and of the FIRST
\* polygon only of anything else.
FirstRing(geom) ==
    IF geom.type = "Polygon" THEN geom.coordinates[1] ELSE geom.coordinates[1][1]

\* load_city lines 52-62: the bbox over the collected coordinates.
load_city_bbox(data) ==
    LET coords == UNION {RingPoints(FirstRing(data[k].geometry)) : k \in 1 .. Len(data)}
        lons == {c[1] : c \in coords}
        lats == {c[2] : c \in coords}
    IN  <<SetMin(lons), SetMin(lats), SetMax(lons), SetMax(lats)>>

-----------------------------------------------------------------------------
(* safe_percent and analyze_wards.                                         *)

\* A percentage is the exact rational num/den; 0.0 is 0/1.
ZeroPercent == [num |-> 0, den |-> 1]

\* A mask is a function from the pixels of a window to BOOLEAN.
MaskSize(mask) == Cardinality(DOMAIN mask)

CountNonzero(mask) == Cardinality({p \in DOMAIN mask : mask[p]})

\* The variant without the size guard: 0/0 on an empty mask.
safe_percent_unguarded(mask) == [num |-> CountNonzero(mask) * 100, den |-> MaskSize(mask)]

\* Line 114.
safe_percent(mask) ==
    IF MaskSize(mask) # 0
    THEN [num |-> CountNonzero(mask) * 100, den |-> MaskSize(mask)]
    ELSE ZeroPercent

\* The offsets, spans and raster dimensions FloatIndex is tabulated for.
TabledArgs == ((-MaxOut - 4) .. (MaxOut + 24)) \X {1, 2, 3, 4, 22} \X {0, 1, 2, 3, 4, 5, 6, 22}

\* FloatIndex on TabledArgs, evaluated once.
IndexTable == [t \in TabledArgs |-> FloatIndex(t[1], t[2], t[3])] @@ <<>>

\* Lines 147-155: int((coordinate - bbox_min) / (bbox_max - bbox_min) * dim),
\* in float64.
PixelIndex(coord, lo, hi, dim) ==
    IF <<coord - lo, hi - lo, dim>> \in TabledArgs
    THEN IndexTable[<<coord - lo, hi - lo, dim>>]
    ELSE FloatIndex(coord - lo, hi - lo, dim)

\* The variant that forgets to subtract the bbox origin.
ZoneWindow_noorigin(bnds, box, h, w) ==
    [rows |-> PySlice(h, Max(0, PixelIndex(bnds[2], 0, box[4] - box[2], h)),
                         Min(h, PixelIndex(bnds[4], 0, box[4] - box[2], h))),
     cols |-> PySlice(w, Max(0, PixelIndex(bnds[1], 0, box[3] - box[1], w)),
                         Min(w, PixelIndex(bnds[3], 0, box[3] - box[1], w)))]

\* The variant that slices without the clamps: raster[y0:y1, x0:x1].
ZoneWindow_noclamp(bnds, box, h, w) ==
    [rows |-> PySlice(h, PixelIndex(bnds[2], box[2], box[4], h),
                         PixelIndex(bnds[4], box[2], box[4], h)),
     cols |-> PySlice(w, PixelIndex(bnds[1], box[1], box[3], w),
                         PixelIndex(bnds[3], box[1], box[3], w))]

\* Lines 147-158: the rows and columns of
\* raster[max(0,y0):min(h,y1), max(0,x0):min(w,x1)].
ZoneWindow(bnds, box, h, w) ==
    [rows |-> PySlice(h, Max(0, PixelIndex(bnds[2], box[2], box[4], h)),
                         Min(h, PixelIndex(bnds[4], box[2], box[4], h))),
     cols |-> PySlice(w, Max(0, PixelIndex(bnds[1], box[1], box[3], w)),
                         Min(w, PixelIndex(bnds[3], box[1], box[3], w)))]

ZonePixels(zone) == zone.rows \X zone.cols

\* Line 160 with <= for <.
LossMask_nonstrict(ndvi, zone) ==
    LET limit == F32Neg(F32Thresh(ndvi_thresh))
    IN  [p \in ZonePixels(zone) |-> ~F32Less(limit, ndvi.px[p])]

\* Line 160: zone_ndvi < -ndvi_thresh, a float32 comparison.
LossMask(ndvi, zone) ==
    LET limit == F32Neg(F32Thresh(ndvi_thresh))
    IN  [p \in ZonePixels(zone) |-> F32Less(ndvi.px[p], limit)]

\* Line 161: zone_ndbi > ndbi_thresh, a float32 comparison.
GrowthMask(ndbi, zone) ==
    LET limit == F32Thresh(ndbi_thresh)
    IN  [p \in ZonePixels(zone) |-> F32Less(limit, ndbi.px[p])]

\* Lines 143-170: the table row of one feature.
WardRow(feat, ndvi, ndbi, box) ==
    LET bnds == Bounds(feat.geometry)
    IN  [Ward |-> feat.name,
         veg_loss |-> safe_percent(LossMask(ndvi, ZoneWindow(bnds, box, ndvi.h, ndvi.w))),
         urban |-> safe_percent(GrowthMask(ndbi, ZoneWindow(bnds, box, ndbi.h, ndbi.w)))]

\* Lines 157-158: the two sub-windows of one feature.
WardZones(feat, ndvi, ndbi, box) ==
    LET bnds == Bounds(feat.geometry)
    IN  [ndvi |-> ZoneWindow(bnds, box, ndvi.h, ndvi.w),
         ndbi |-> ZoneWindow(bnds, box, ndbi.h, ndbi.w)]

\* Lines 136-180: one row per feature, in order.
analyze_wards(data, ndvi, ndbi, box) == [k \in 1 .. Len(data) |-> WardRow(data[k], ndvi, ndbi, box)]

-----------------------------------------------------------------------------
(* SpecWards: analyze_wards applied to bounded inputs.                     *)

\* The query bboxes of the ward inputs.  WardBBox has origin (1, 0) and width
\* and height of two; WideBBox is 22 wide, a width by which the float64
\* quotient of an offset is not exact.
WardBBox == <<1, 0, 3, 2>>
WideBBox == <<0, 0, 22, 2>>

\* Ward coordinates: the bbox range widened by MaxOut on every side; over
\* WideBBox the columns around 15, where int(15 / 22 * 22) is 14.
WideXs == {-1, 0, 14, 15, 16, 22, 23}
WardXs(box) == IF box = WideBBox THEN WideXs ELSE (box[1] - MaxOut) .. (box[3] + MaxOut)
WardYs(box) == (box[2] - MaxOut) .. (box[4] + MaxOut)

\* Bounding boxes of wards: non-degenerate rectangles on the grid.
WardBoxes(box) ==
    {b \in WardXs(box) \X WardYs(box) \X WardXs(box) \X WardYs(box) : b[1] < b[3] /\ b[2] < b[4]}

Inside(b, box) == box[1] <= b[1] /\ b[3] <= box[3] /\ box[2] <= b[2] /\ b[4] <= box[4]

\* Two polygons with the same bounding box: the rectangle and a triangle.
RectRing(b) == <<<<b[1], b[2]>>, <<b[3], b[2]>>, <<b[3], b[4]>>, <<b[1], b[4]>>, <<b[1], b[2]>>>>
TriRing(b) == <<<<b[1], b[2]>>, <<b[3], b[2]>>, <<b[1], b[4]>>, <<b[1], b[2]>>>>

PolygonFeature(name, ring) == [name |-> name, geometry |-> [type |-> "Polygon", coordinates |-> <<ring>>]]

WardFeatures(box) ==
    {PolygonFeature("rect", RectRing(b)) : b \in WardBoxes(box)}
    \cup {PolygonFeature("tri", TriRing(b)) : b \in {c \in WardBoxes(box) : Inside(c, box)}}

\* Change values around the default threshold 0.2: the float32 numbers
\* -0.6, -0.2, 0 and their negations.
NdviVals == {F32Neg(F32Div(3, 5)), F32Neg(F32Div(1, 5)), F32Zero}
NdbiVals == {F32Div(3, 5), F32Div(1, 5), F32Zero}

\* The NDVI rasters over WardBBox are all 2 x 2 rasters; over WideBBox they
\* are 2 x 22 with one value in column 14 and one in the other columns.
NdviInputs(box) ==
    IF box = WideBBox
    THEN {[h |-> 2, w |-> 22, px |-> [p \in Pixels(2, 22) |-> IF p[2] = 14 THEN v[1] ELSE v[2]]] :
             v \in NdviVals \X NdviVals}
    ELSE {[h |-> 2, w |-> 2, px |-> f] : f \in [Pixels(2, 2) -> NdviVals]}
NdbiInputs == {[h |-> 1, w |-> 1, px |-> f] : f \in [Pixels(1, 1) -> NdbiVals]}

NoCalls == [search |-> 0, sign |-> 0, read |-> 0]

InitWards ==
    /\ city = "" /\ year = 0
    /\ ndvi_thresh \in {20, 40} /\ ndbi_thresh = 20
    /\ boundary = <<>>
    /\ bbox \in {WardBBox, WideBBox}
    /\ catalog = {}
    /\ cache = <<>>
    /\ pc = "call"
    /\ before = None /\ after = None /\ bands = <<>>
    /\ \E a \in NdviInputs(bbox), b \in NdbiInputs : result = [ndvi |-> a, ndbi |-> b]
    /\ ward_df = <<>> /\ zones = <<>>
    /\ err = None
    /\ calls = NoCalls /\ searched = <<>>
    /\ repeat = FALSE
    /\ completed = <<>>
    /\ runs = 0

\* Line 187 on one single-feature collection.
WardsCall ==
    /\ pc = "call"
    /\ \E feat \in WardFeatures(bbox) :
        /\ boundary' = <<feat>>
        /\ ward_df' = analyze_wards(<<feat>>, result.ndvi, result.ndbi, bbox)
        /\ zones' = <<WardZones(feat, result.ndvi, result.ndbi, bbox)>>
    /\ pc' = "return"
    /\ UNCHANGED <<city, year, ndvi_thresh, ndbi_thresh, bbox, catalog, cache,
                   before, after, bands, result, err, calls, searched, repeat, completed, runs>>

NextWards == WardsCall

SpecWards == InitWards /\ [][NextWards]_vars

-----------------------------------------------------------------------------
(* compute_change: the index arithmetic of lines 97-108.                   *)

ValueError == [error |-> "ValueError"]

\* numpy broadcasting of two 2-D shapes: per axis equal, or one of them 1.
AxisOk(m, n) == m = n \/ m = 1 \/ n = 1

Broadcastable(a, b) == AxisOk(a.h, b.h) /\ AxisOk(a.w, b.w)

AxisLen(m, n) == IF m = 1 THEN n ELSE m

\* The element of r that a broadcast operation pairs with result pixel p.
At(r, p) == r.px[<<IF r.h = 1 THEN 0 ELSE p[1], IF r.w = 1 THEN 0 ELSE p[2]>>]

\* (A - B) / (A + B + 1e-10) with the operands swapped.
IndexOf_swapped(A, B) ==
    IF A + B = 0 THEN F32Zero
    ELSE IF B >= A THEN F32Div(B - A, A + B) ELSE F32Neg(F32Div(A - B, A + B))

\* (A - B) / (A + B + 1e-10) in float32.  For band values A + B >= 1 the
\* float32 sum absorbs the epsilon; for A = B = 0 the quotient is
\* 0 / 1e-10 = 0.
IndexOf(A, B) ==
    IF A + B = 0 THEN F32Zero
    ELSE IF A >= B THEN F32Div(A - B, A + B) ELSE F32Neg(F32Div(B - A, A + B))

\* Elementwise index of two broadcastable rasters.
NormDiff(a, b) ==
    [h |-> AxisLen(a.h, b.h), w |-> AxisLen(a.w, b.w),
     px |-> [p \in Pixels(AxisLen(a.h, b.h), AxisLen(a.w, b.w)) |-> IndexOf(At(a, p), At(b, p))]]

\* Elementwise a - b of two broadcastable float32 rasters.
Subtract(a, b) ==
    [h |-> AxisLen(a.h, b.h), w |-> AxisLen(a.w, b.w),
     px |-> [p \in Pixels(AxisLen(a.h, b.h), AxisLen(a.w, b.w)) |-> F32Sub(At(a, p), At(b, p))]]

\* r[:h, :w].
Crop(r, h, w) ==
    [h |-> Cardinality(PySlice(r.h, 0, h)), w |-> Cardinality(PySlice(r.w, 0, w)),
     px |-> [p \in PySlice(r.h, 0, h) \X PySlice(r.w, 0, w) |-> r.px[p]]]

\* Lines 97-108 on the six rasters of lines 93-95.  Any operand pair that
\* numpy cannot broadcast raises ValueError.
compute_arith(red_b, nir_b, red_a, nir_a, swir_b, swir_a) ==
    LET crop_a == Crop(nir_a, swir_a.h, swir_a.w)
        crop_b == Crop(nir_b, swir_b.h, swir_b.w)
    IN  IF /\ Broadcastable(nir_a, red_a) /\ Broadcastable(nir_b, red_b)
           /\ Broadcastable(swir_a, crop_a) /\ Broadcastable(swir_b, crop_b)
           /\ Broadcastable(NormDiff(nir_a, red_a), NormDiff(nir_b, red_b))
           /\ Broadcastable(NormDiff(swir_a, crop_a), NormDiff(swir_b, crop_b))
        THEN [ndvi |-> Subtract(NormDiff(nir_a, red_a), NormDiff(nir_b, red_b)),
              ndbi |-> Subtract(NormDiff(swir_a, crop_a), NormDiff(swir_b, crop_b))]
        ELSE ValueError

\* bands holds, in reading order (lines 93-95):
\* red_b, nir_b, red_a, nir_a, swir_b, swir_a.
BandOrder == <<"B04", "B08", "B04", "B08", "B11", "B11">>
ItemOrder == <<"before", "before", "after", "after", "before", "after">>

ArithOf(b) == compute_arith(b[1], b[2], b[3], b[4], b[5], b[6])

-----------------------------------------------------------------------------
(* SpecChange: the index arithmetic applied to bounded band rasters.       *)

BandVals == 0 .. MaxBand

\* Band values whose indices are small quotients: NIR and red two counts
\* apart at 127/129 and one apart at 49/50, and a scene of mixed values.
SceneBands == {<<0, 0, 127, 129, 0, 0>>, <<0, 0, 50, 49, 0, 0>>,
               <<32, 33, 127, 129, 100, 65>>}

InitChange ==
    /\ city = "" /\ year = 0
    /\ ndvi_thresh = 20 /\ ndbi_thresh = 20
    /\ boundary = <<>>
    /\ bbox = WardBBox
    /\ catalog = {}
    /\ cache = <<>>
    /\ pc = "compute"
    /\ before = None /\ after = None
    /\ \E v \in [1 .. 6 -> BandVals] \cup SceneBands :
          bands = [k \in 1 .. 6 |-> IF k <= 4 THEN Uniform(2, 2, v[k]) ELSE Uniform(1, 1, v[k])]
    /\ result = None
    /\ ward_df = <<>> /\ zones = <<>>
    /\ err = None
    /\ calls = NoCalls /\ searched = <<>>
    /\ repeat = FALSE
    /\ completed = <<>>
    /\ runs = 0

\* Lines 97-108 on the rasters read.
ChangeCall ==
    /\ pc = "compute"
    /\ result' = ArithOf(bands)
    /\ pc' = "return"
    /\ UNCHANGED <<city, year, ndvi_thresh, ndbi_thresh, boundary, bbox, catalog,
                   cache, before, after, bands, ward_df, zones, err, calls, searched,
                   repeat, completed, runs>>

NextChange == ChangeCall

SpecChange == InitChange /\ [][NextChange]_vars

-----------------------------------------------------------------------------
(* The sidebar (lines 29-42) and the boundary files.                       *)

Cities == {"Bangalore", "Chennai", "Hyderabad"}

\* The year slider (line 39).
Years == 2019 .. 2025

Rect(x0, y0, x1, y1) == RectRing(<<x0, y0, x1, y1>>)

MultiPolygonFeature(name, polys) == [name |-> name, geometry |-> [type |-> "MultiPolygon", coordinates |-> polys]]

\* The feature collection each boundary file holds.  Bangalore's first ward
\* and Chennai's second are MultiPolygons whose second polygon lies beyond
\* the first rings: below and left of them in Bangalore, above and right of
\* them in Chennai.
CITY_FILES(c) ==
    CASE c = "Bangalore" ->
            <<MultiPolygonFeature("B1", <<<<Rect(0, 0, 2, 2)>>, <<Rect(-1, -1, 0, 0)>>>>),
              PolygonFeature("B2", Rect(2, 0, 4, 2))>>
      [] c = "Chennai" ->
            <<PolygonFeature("C1", Rect(10, 0, 12, 2)),
              MultiPolygonFeature("C2", <<<<Rect(11, 1, 12, 2)>>, <<Rect(12, 2, 14, 3)>>>>)>>
      [] OTHER ->
            <<PolygonFeature("H1", Rect(20, 0, 22, 2)), PolygonFeature("H2", TriRing(<<21, 0, 22, 1>>))>>

-----------------------------------------------------------------------------
(* The catalog and the band reader.                                        *)

CloudLimit == 10
NdviReadScale == 4
SwirReadScale == 8

\* A scene: its footprint, year, cloud cover, the shape of its 10 m bands
\* (the 20 m band B11 has half of it) and a uniform value in each band.
Item(id, fp, yr, cloud, dim, red, nir, swir) ==
    [id |-> id, footprint |-> fp, year |-> yr, cloud |-> cloud, h10 |-> dim, w10 |-> dim,
     red |-> red, nir |-> nir, swir |-> swir, signed |-> FALSE]

BangaloreTile == <<-1, -1, 5, 3>>
ChennaiTile == <<9, -1, 15, 4>>
HyderabadTile == <<19, -1, 23, 3>>

InitialScenes ==
    {Item(1, BangaloreTile, 2023, 5, 16, 1, 4, 2),
     Item(2, BangaloreTile, 2024, 3, 16, 1, 1, 3),
     Item(3, BangaloreTile, 2024, 8, 16, 2, 3, 1),
     Item(4, BangaloreTile, 2025, 2, 24, 1, 2, 2),
     Item(5, ChennaiTile, 2023, 5, 16, 2, 2, 1),
     Item(6, ChennaiTile, 2024, 50, 16, 1, 3, 1),
     Item(7, ChennaiTile, 2025, 1, 16, 1, 3, 2),
     Item(8, HyderabadTile, 2023, 0, 16, 0, 0, 0),
     Item(9, HyderabadTile, 2024, 9, 16, 1, 3, 4)}

\* Scenes the catalog may come to hold later.
LaterScenes ==
    {Item(0, BangaloreTile, 2024, 1, 16, 3, 1, 1),
     Item(10, ChennaiTile, 2024, 4, 16, 1, 4, 0)}

Intersects(fp, box) == fp[1] <= box[3] /\ box[1] <= fp[3] /\ fp[2] <= box[4] /\ box[2] <= fp[4]

RECURSIVE InIdOrder(_)
InIdOrder(S) ==
    IF S = {} THEN <<>>
    ELSE LET m == CHOOSE s \in S : \A t \in S : s.id <= t.id
         IN  <<m>> \o InIdOrder(S \ {m})

\* The search with the cloud filter dropped.
search_anycloud(cat, box, yr) == InIdOrder({s \in cat : Intersects(s.footprint, box) /\ s.year = yr})

\* Lines 74-79: collection, bbox, the year's date range, cloud cover < 10;
\* the items come in the catalog's order.
search(cat, box, yr) ==
    InIdOrder({s \in cat : Intersects(s.footprint, box) /\ s.year = yr /\ s.cloud < CloudLimit})

\* pc.sign (line 80).
sign(item) == [item EXCEPT !.signed = TRUE]

NativeH(item, band) == IF band = "B11" THEN item.h10 \div 2 ELSE item.h10
NativeW(item, band) == IF band = "B11" THEN item.w10 \div 2 ELSE item.w10

BandValue(item, band) ==
    CASE band = "B04" -> item.red [] band = "B08" -> item.nir [] OTHER -> item.swir

\* Lines 85-91: the whole band resampled (averaged) to
\* (height // scale, width // scale); the average of a uniform band is its value.
read(band, item, scale) ==
    Uniform(NativeH(item, band) \div scale, NativeW(item, band) \div scale, BandValue(item, band))

ScaleOrder ==
    <<NdviReadScale, NdviReadScale, NdviReadScale, NdviReadScale, SwirReadScale, SwirReadScale>>

IndexError == [error |-> "IndexError"]
RasterioIOError == [error |-> "RasterioIOError"]

\* scene() falling back to any cloud cover when the filtered list is empty.
scene_fallback(cat, box, yr) ==
    IF search(cat, box, yr) # <<>> THEN sign(search(cat, box, yr)[1])
    ELSE IF search_anycloud(cat, box, yr) # <<>> THEN sign(search_anycloud(cat, box, yr)[1])
    ELSE IndexError

\* Lines 73-80: the first item of the search, signed; indexing an empty list
\* raises IndexError.
scene(cat, box, yr) ==
    IF search(cat, box, yr) = <<>> THEN IndexError ELSE sign(search(cat, box, yr)[1])

\* The cache key with the years left out.
CacheKey_noyears(box, y1, y2) == <<box, 0, 0>>

\* st.cache_data (line 69): the key is the argument tuple.
CacheKey(box, y1, y2) == <<box, y1, y2>>

-----------------------------------------------------------------------------
(* Spec: the script, run after run.                                        *)
(* A rerun starts when the previous run has ended; the catalog is remote    *)
(* and may gain a scene at any moment, also between the two searches and   *)
(* between the reads of one run.                                           *)

Key == CacheKey(bbox, year - 1, year)

\* The arguments of the call, as history keeps them.
CallArgs == <<bbox, year - 1, year>>

FullCalls == [search |-> 2, sign |-> 2, read |-> 6]

Init ==
    /\ city = "Bangalore" /\ year = 2024
    /\ ndvi_thresh = 20 /\ ndbi_thresh = 20
    /\ boundary = <<>>
    /\ bbox = <<>>
    /\ catalog = InitialScenes
    /\ cache = <<>>
    /\ pc = "load_city"
    /\ before = None /\ after = None /\ bands = <<>>
    /\ result = None
    /\ ward_df = <<>> /\ zones = <<>>
    /\ err = None
    /\ calls = NoCalls /\ searched = <<>>
    /\ repeat = FALSE
    /\ completed = <<>>
    /\ runs = 1

Ended == pc \in {"done", "error"}

\* A widget changes (or the page is reloaded) and the script runs again.
Rerun ==
    /\ Ended
    /\ runs < MaxRuns
    /\ \/ \E c \in Cities : city' = c /\ UNCHANGED <<year, ndvi_thresh, ndbi_thresh>>
       \/ \E y \in Years : year' = y /\ UNCHANGED <<city, ndvi_thresh, ndbi_thresh>>
       \/ \E t \in ThreshInputs : ndvi_thresh' = t /\ UNCHANGED <<city, year, ndbi_thresh>>
       \/ \E t \in ThreshInputs : ndbi_thresh' = t /\ UNCHANGED <<city, year, ndvi_thresh>>
    /\ runs' = runs + 1
    /\ pc' = "load_city"
    /\ boundary' = <<>> /\ bbox' = <<>>
    /\ before' = None /\ after' = None /\ bands' = <<>>
    /\ result' = None /\ ward_df' = <<>> /\ zones' = <<>> /\ err' = None
    /\ calls' = NoCalls /\ searched' = <<>> /\ repeat' = FALSE
    /\ UNCHANGED <<catalog, cache, completed>>

\* The catalog gains a scene.
Publish ==
    /\ \E s \in LaterScenes \ catalog : catalog' = catalog \cup {s}
    /\ UNCHANGED <<city, year, ndvi_thresh, ndbi_thresh, boundary, bbox, cache, pc,
                   before, after, bands, result, ward_df, zones, err, calls, searched,
                   repeat, completed, runs>>

\* Line 185.
LoadCity ==
    /\ pc = "load_city"
    /\ boundary' = CITY_FILES(city)
    /\ bbox' = load_city_bbox(CITY_FILES(city))
    /\ pc' = "compute_change"
    /\ UNCHANGED <<city, year, ndvi_thresh, ndbi_thresh, catalog, cache, before, after,
                   bands, result, ward_df, zones, err, calls, searched, repeat, completed, runs>>

\* Line 186 served by st.cache_data.
CacheHit ==
    /\ pc = "compute_change"
    /\ Key \in DOMAIN cache
    /\ result' = cache[Key]
    /\ repeat' = (CallArgs \in DOMAIN completed)
    /\ pc' = "analyze"
    /\ UNCHANGED <<city, year, ndvi_thresh, ndbi_thresh, boundary, bbox, catalog, cache,
                   before, after, bands, ward_df, zones, err, calls, searched, completed, runs>>

\* Line 186 on a miss: the body starts (line 71).
CacheMiss ==
    /\ pc = "compute_change"
    /\ Key \notin DOMAIN cache
    /\ repeat' = (CallArgs \in DOMAIN completed)
    /\ pc' = "scene_before"
    /\ UNCHANGED <<city, year, ndvi_thresh, ndbi_thresh, boundary, bbox, catalog, cache,
                   before, after, bands, result, ward_df, zones, err, calls, searched, completed, runs>>

\* Line 82.
SceneBefore ==
    /\ pc = "scene_before"
    /\ searched' = Append(searched, search(catalog, bbox, year - 1))
    /\ IF scene(catalog, bbox, year - 1) = IndexError
       THEN /\ err' = IndexError /\ pc' = "error"
            /\ calls' = [calls EXCEPT !.search = @ + 1]
            /\ UNCHANGED before
       ELSE /\ before' = scene(catalog, bbox, year - 1)
            /\ calls' = [calls EXCEPT !.search = @ + 1, !.sign = @ + 1]
            /\ pc' = "scene_after"
            /\ UNCHANGED err
    /\ UNCHANGED <<city, year, ndvi_thresh, ndbi_thresh, boundary, bbox, catalog, cache,
                   after, bands, result, ward_df, zones, repeat, completed, runs>>

\* Line 83.
SceneAfter ==
    /\ pc = "scene_after"
    /\ searched' = Append(searched, search(catalog, bbox, year))
    /\ IF scene(catalog, bbox, year) = IndexError
       THEN /\ err' = IndexError /\ pc' = "error"
            /\ calls' = [calls EXCEPT !.search = @ + 1]
            /\ UNCHANGED after
       ELSE /\ after' = scene(catalog, bbox, year)
            /\ calls' = [calls EXCEPT !.search = @ + 1, !.sign = @ + 1]
            /\ pc' = "read"
            /\ UNCHANGED err
    /\ UNCHANGED <<city, year, ndvi_thresh, ndbi_thresh, boundary, bbox, catalog, cache,
                   before, bands, result, ward_df, zones, repeat, completed, runs>>

NextItem == IF ItemOrder[Len(bands) + 1] = "before" THEN before ELSE after

\* Lines 93-95: the next of the six reads succeeds.
ReadOk ==
    /\ pc = "read"
    /\ bands' = Append(bands, read(BandOrder[Len(bands) + 1], NextItem, ScaleOrder[Len(bands) + 1]))
    /\ calls' = [calls EXCEPT !.read = @ + 1]
    /\ pc' = IF Len(bands) + 1 = 6 THEN "compute" ELSE "read"
    /\ UNCHANGED <<city, year, ndvi_thresh, ndbi_thresh, boundary, bbox, catalog, cache,
                   before, after, result, ward_df, zones, err, searched, repeat, completed, runs>>

\* A failed read answered by a raster of zeros.
ReadFail_swallowed ==
    /\ pc = "read"
    /\ bands' = Append(bands, [read(BandOrder[Len(bands) + 1], NextItem, ScaleOrder[Len(bands) + 1])
                                  EXCEPT !.px = [p \in DOMAIN @ |-> 0]])
    /\ calls' = [calls EXCEPT !.read = @ + 1]
    /\ err' = RasterioIOError
    /\ pc' = IF Len(bands) + 1 = 6 THEN "compute" ELSE "read"
    /\ UNCHANGED <<city, year, ndvi_thresh, ndbi_thresh, boundary, bbox, catalog, cache,
                   before, after, result, ward_df, zones, searched, repeat, completed, runs>>

\* Lines 86-91: the next read fails (network or decode); the exception
\* leaves compute_change and ends the script run.
ReadFail ==
    /\ pc = "read"
    /\ calls' = [calls EXCEPT !.read = @ + 1]
    /\ err' = RasterioIOError
    /\ pc' = "error"
    /\ UNCHANGED <<city, year, ndvi_thresh, ndbi_thresh, boundary, bbox, catalog, cache,
                   before, after, bands, result, ward_df, zones, searched, repeat, completed, runs>>

\* Lines 97-108, and st.cache_data storing what the body returned.
Compute ==
    /\ pc = "compute"
    /\ IF ArithOf(bands) = ValueError
       THEN /\ err' = ValueError /\ pc' = "error"
            /\ UNCHANGED <<result, cache, completed>>
       ELSE /\ result' = ArithOf(bands)
            /\ cache' = [k \in DOMAIN cache \cup {Key} |-> IF k = Key THEN ArithOf(bands) ELSE cache[k]]
            /\ completed' = [k \in DOMAIN completed \cup {CallArgs} |->
                                IF k \in DOMAIN completed THEN completed[k] ELSE ArithOf(bands)]
            /\ pc' = "analyze"
            /\ UNCHANGED err
    /\ UNCHANGED <<city, year, ndvi_thresh, ndbi_thresh, boundary, bbox, catalog,
                   before, after, bands, ward_df, zones, calls, searched, repeat, runs>>

\* Line 187, and the rendering after it.
Analyze ==
    /\ pc = "analyze"
    /\ ward_df' = analyze_wards(boundary, result.ndvi, result.ndbi, bbox)
    /\ zones' = [k \in 1 .. Len(boundary) |-> WardZones(boundary[k], result.ndvi, result.ndbi, bbox)]
    /\ pc' = "done"
    /\ UNCHANGED <<city, year, ndvi_thresh, ndbi_thresh, boundary, bbox, catalog, cache,
                   before, after, bands, result, err, calls, searched, repeat, completed, runs>>

Next ==
    \/ Rerun \/ Publish \/ LoadCity \/ CacheHit \/ CacheMiss \/ SceneBefore \/ SceneAfter
    \/ ReadOk \/ ReadFail \/ Compute \/ Analyze

Spec == Init /\ [][Next]_vars

-----------------------------------------------------------------------------
(* Properties of the script (Spec).                                        *)

Selected(item, yr) ==
    item.year = yr /\ item.cloud < CloudLimit /\ Intersects(item.footprint, bbox)

\* C1: when the search for the before-year or for the after-year returned
\* no item, the run ends in the IndexError of the empty-list index: no band
\* is read, nothing is returned or analysed; a scene that was selected is the
\* first item its search returned and satisfies the bbox, year and cloud
\* filter of that search.
C1_NoSceneIsFatal ==
    /\ Len(searched) = calls.search
    /\ (Len(searched) >= 1 /\ searched[1] = <<>>)
          => /\ pc = "error" /\ err = IndexError
             /\ calls = [search |-> 1, sign |-> 0, read |-> 0]
             /\ before = None /\ after = None /\ bands = <<>>
             /\ result = None /\ ward_df = <<>>
    /\ (Len(searched) = 2 /\ searched[2] = <<>>)
          => /\ pc = "error" /\ err = IndexError
             /\ calls = [search |-> 2, sign |-> 1, read |-> 0]
             /\ after = None /\ bands = <<>>
             /\ result = None /\ ward_df = <<>>
    /\ before # None => before = sign(searched[1][1]) /\ Selected(before, year - 1)
    /\ after # None => after = sign(searched[2][1]) /\ Selected(after, year)

\* The after-year has only a cloudy scene: the before scene was selected and
\* signed, the second search came back empty, and the run ended in the error.
C1_Witness ==
    /\ pc = "error" /\ err = IndexError
    /\ Len(searched) = 2 /\ before # None
    /\ searched[2] = <<>>
    /\ search_anycloud(catalog, bbox, year) # <<>>

\* C2: when the before and after rasters differ in shape, compute_change
\* still returns, each change raster has the minimum of the two heights and
\* of the two widths, and every pixel is after minus before.
C2_ShapeMismatchCropped ==
    (/\ Len(bands) = 6 /\ pc # "compute"
     /\ (bands[2].h # bands[4].h \/ bands[2].w # bands[4].w))
        => /\ pc # "error"
           /\ result # None
           /\ result.ndvi.h = Min(bands[2].h, bands[4].h)
           /\ result.ndvi.w = Min(bands[2].w, bands[4].w)
           /\ \A p \in Pixels(result.ndvi.h, result.ndvi.w) :
                 result.ndvi.px[p] = F32Sub(IndexOf(bands[4].px[p], bands[3].px[p]),
                                            IndexOf(bands[2].px[p], bands[1].px[p]))

\* C6: a call whose arguments have completed before makes no search, no
\* signing and no read and returns the first call's rasters; a call with
\* other arguments runs the whole body.
C6_Memoized ==
    /\ pc \in {"analyze", "done"}
          => /\ CallArgs \in DOMAIN completed
             /\ result = completed[CallArgs]
             /\ repeat => calls = NoCalls
             /\ ~repeat => calls = FullCalls
    /\ (repeat /\ pc \notin {"load_city", "compute_change"})
          => calls = NoCalls /\ pc \in {"analyze", "done"}

\* What the body would return on the catalog as it is now.
FreshResult ==
    ArithOf([k \in 1 .. 6 |->
                read(BandOrder[k],
                     IF ItemOrder[k] = "before" THEN scene(catalog, bbox, year - 1)
                                                ELSE scene(catalog, bbox, year),
                     ScaleOrder[k])])

\* A repeated call answered after the catalog has gained a scene that a fresh
\* search would select first: the rasters returned are the first call's.
C6_Witness ==
    /\ pc = "done" /\ repeat /\ calls = NoCalls
    /\ search(catalog, bbox, year - 1) # <<>> /\ search(catalog, bbox, year) # <<>>
    /\ result # FreshResult

\* C7: a failed band read ends the run: no change raster is returned, the
\* cache holds nothing for the key, and no ward table is produced.
C7_ReadFailureIsFatal ==
    err = RasterioIOError
        => /\ pc = "error"
           /\ result = None
           /\ ward_df = <<>> /\ zones = <<>>
           /\ CallArgs \notin DOMAIN cache
           /\ CallArgs \notin DOMAIN completed

\* The B11 read of the before scene fails after the four NDVI bands were read.
C7_Witness ==
    /\ err = RasterioIOError /\ pc = "error"
    /\ Len(bands) = 4 /\ calls.read = 5

\* The part of the scene footprint, along one axis, that pixel i of a raster
\* of `out` pixels covers is the rational interval [i/out, (i+1)/out): two
\* rasters of outA and outB pixels agree on pixel i when the ends agree.
SameSpan(outA, outB, i) == i * outB = i * outA /\ (i + 1) * outB = (i + 1) * outA

\* The position in bands of the NIR raster that SWIR raster k is combined with.
NirOf(k) == IF k = 5 THEN 2 ELSE 4

\* C10: every SWIR pixel (i, j) read at scale 8 and the NIR pixel (i, j) it
\* is combined with cover the same part of the scene.
C10_GridAligned ==
    \A k \in {5, 6} :
        Len(bands) >= k
            => \A p \in Pixels(bands[k].h, bands[k].w) :
                  /\ SameSpan(bands[k].h, bands[NirOf(k)].h, p[1])
                  /\ SameSpan(bands[k].w, bands[NirOf(k)].w, p[2])

-----------------------------------------------------------------------------
(* Properties of analyze_wards (SpecWards).                                *)

Returned == pc = "return"

\* The number of pixels of a window whose NDVI change is strictly below
\* -ndvi_thresh, and whose NDBI change is strictly above ndbi_thresh.
LossCount(zone) ==
    LET t == F32Thresh(ndvi_thresh)
    IN  Cardinality({p \in ZonePixels(zone) : F32Less(result.ndvi.px[p], F32Neg(t))})
GrowthCount(zone) ==
    LET t == F32Thresh(ndbi_thresh)
    IN  Cardinality({p \in ZonePixels(zone) : F32Less(t, result.ndbi.px[p])})
AtThreshold(zone) ==
    LET t == F32Thresh(ndvi_thresh)
    IN  {p \in ZonePixels(zone) : result.ndvi.px[p] = F32Neg(t)}

\* The float32 numbers -0.6 and 0.2.
MinusSixTenths == F32Neg(F32Div(6, 10))
TwoTenths == F32Div(2, 10)

\* C3: each ward's vegetation loss is 100 * (pixels of its NDVI window
\* strictly below -ndvi_thresh) / (pixels of the window), its urban expansion
\* the same over the NDBI window for pixels strictly above ndbi_thresh; a
\* window of pixels at the threshold exactly counts none, and a window at -0.6
\* everywhere with threshold 0.2 gives 100%.
C3_Percentages ==
    Returned =>
        \A k \in 1 .. Len(ward_df) :
            LET zv == zones[k].ndvi
                zu == zones[k].ndbi
                nv == Cardinality(ZonePixels(zv))
                nu == Cardinality(ZonePixels(zu))
            IN  /\ nv > 0 => /\ ward_df[k].veg_loss.den > 0
                             /\ ward_df[k].veg_loss.num * nv = 100 * LossCount(zv) * ward_df[k].veg_loss.den
                /\ nu > 0 => /\ ward_df[k].urban.den > 0
                             /\ ward_df[k].urban.num * nu = 100 * GrowthCount(zu) * ward_df[k].urban.den
                /\ (nv > 0 /\ AtThreshold(zv) = ZonePixels(zv)) => ward_df[k].veg_loss.num = 0
                /\ (/\ nv > 0 /\ F32Thresh(ndvi_thresh) = TwoTenths
                    /\ \A p \in ZonePixels(zv) : result.ndvi.px[p] = MinusSixTenths)
                      => ward_df[k].veg_loss.num = 100 * ward_df[k].veg_loss.den

\* A window of several pixels, one at the threshold and one below it: the
\* loss is strictly between 0 and 100 percent.
C3_Witness ==
    /\ Returned
    /\ AtThreshold(zones[1].ndvi) # {}
    /\ LossCount(zones[1].ndvi) > 0
    /\ ward_df[1].veg_loss.num > 0
    /\ ward_df[1].veg_loss.num < 100 * ward_df[1].veg_loss.den

\* C4: a percentage is never undefined: it is 0.0 for an empty window and
\* lies in 0..100 otherwise.
C4_SafePercent ==
    Returned =>
        \A k \in 1 .. Len(ward_df) :
            /\ ward_df[k].veg_loss.den > 0
            /\ 0 <= ward_df[k].veg_loss.num
            /\ ward_df[k].veg_loss.num <= 100 * ward_df[k].veg_loss.den
            /\ ward_df[k].urban.den > 0
            /\ 0 <= ward_df[k].urban.num
            /\ ward_df[k].urban.num <= 100 * ward_df[k].urban.den
            /\ ZonePixels(zones[k].ndvi) = {} => ward_df[k].veg_loss = ZeroPercent
            /\ ZonePixels(zones[k].ndbi) = {} => ward_df[k].urban = ZeroPercent

\* A ward above the raster: both windows are empty and both percentages 0.0.
C4_Witness ==
    /\ Returned
    /\ ZonePixels(zones[1].ndvi) = {} /\ ZonePixels(zones[1].ndbi) = {}
    /\ ward_df[1].veg_loss = ZeroPercent /\ ward_df[1].urban = ZeroPercent

\* The interpolated pixel index int((coord - lo) / (hi - lo) * dim) of a
\* coordinate, as Python evaluates it.
Interp(coord, lo, hi, dim) == PixelIndex(coord, lo, hi, dim)

\* The spec's zone scenario in half units: bbox [0,0,1,1] is <<0,0,2,2>>, the
\* zone [0,0,0.5,0.5] is <<0,0,1,1>>, the raster is (100, 100).
ExampleWindow == ZoneWindow(<<0, 0, 1, 1>>, <<0, 0, 2, 2>>, 100, 100)

\* Over WideBBox and a (2, 22) raster the zone [15, 0, 16, 1] starts at column
\* int(15 / 22 * 22) = 14: the float64 quotient times 22 is just below 15.
WideExample == ZoneWindow(<<15, 0, 16, 1>>, WideBBox, 2, 22)

\* C5: for a ward whose bounding box lies inside the query bbox, the window
\* of a raster of shape (h, w) is rows [y0, y1) and columns [x0, x1) of the
\* interpolated indices, whatever the polygon's shape; a (100, 100) raster
\* over bbox [0,0,1,1] and a zone [0,0,0.5,0.5] give rows and columns 0..49.
C5_InsideWindow ==
    /\ Returned =>
        \A k \in 1 .. Len(boundary) :
            LET b == Bounds(boundary[k].geometry)
                nv == result.ndvi
                nu == result.ndbi
            IN  Inside(b, bbox) =>
                  /\ zones[k].ndvi.rows = Interp(b[2], bbox[2], bbox[4], nv.h) .. (Interp(b[4], bbox[2], bbox[4], nv.h) - 1)
                  /\ zones[k].ndvi.cols = Interp(b[1], bbox[1], bbox[3], nv.w) .. (Interp(b[3], bbox[1], bbox[3], nv.w) - 1)
                  /\ zones[k].ndbi.rows = Interp(b[2], bbox[2], bbox[4], nu.h) .. (Interp(b[4], bbox[2], bbox[4], nu.h) - 1)
                  /\ zones[k].ndbi.cols = Interp(b[1], bbox[1], bbox[3], nu.w) .. (Interp(b[3], bbox[1], bbox[3], nu.w) - 1)
    /\ ExampleWindow = [rows |-> 0 .. 49, cols |-> 0 .. 49]
    /\ WideExample = [rows |-> 0 .. 0, cols |-> 14 .. 15]

\* A triangular ward inside the bbox, in its upper right quarter.
C5_Witness ==
    /\ Returned
    /\ boundary[1].name = "tri"
    /\ Inside(Bounds(boundary[1].geometry), bbox)
    /\ zones[1].ndvi = [rows |-> {1}, cols |-> {1}]
    /\ zones[1].ndbi = [rows |-> {0}, cols |-> {0}]

-----------------------------------------------------------------------------
(* The ward windows of the script (Spec).                                  *)

\* The rows [lo, hi) of a raster of n rows.
Clamped(lo, hi, n) == {i \in 0 .. n - 1 : lo <= i /\ i < hi}

-----------------------------------------------------------------------------
(* Properties of the index arithmetic (SpecChange).                        *)

\* The denominator that decides an index: A + B, or the epsilon alone (any
\* positive number, the numerator being 0) when both are 0.
Denom(A, B) == IF A + B = 0 THEN 1 ELSE A + B

\* (difference after) * (sum before) - (difference before) * (sum after):
\* the exact change times the two sums.
Cross(a, b, c, d) == (a - b) * Denom(c, d) - (c - d) * Denom(a, b)

\* The float32 r is the rational x / d up to rounding: their difference is
\* below 2^-10 of r.  (The significand is cut to its first 12 bits.)
Near(r, x, d) ==
    IF r.m = 0 THEN x = 0
    ELSE Abs((r.m \div 2 ^ 12) * d - x * 2 ^ (-(r.e + 12))) <= 2 * d

\* The float32 1.0.
F32One == [m |-> 2 ^ 23, e |-> -23]

\* The float32 2^-7 = 0.0078125, which is (129 - 127) / (129 + 127).
F32Small == [m |-> 2 ^ 23, e |-> -30]

\* C8: every pixel of ndvi_change is index(nir_a, red_a) - index(nir_b, red_b)
\* and every pixel of ndbi_change is index(swir_a, nir_a) - index(swir_b, nir_b)
\* with index(A, B) = (A - B) / (A + B + eps), up to float32 rounding: the
\* change has the sign of the exact after-minus-before difference, which is
\* the sign of A - B when the before index is 0, and is 0 when it is 0;
\* NIR 129 over red 127 after an index of 0 before is a change of 2^-7.
C8_IndexChange ==
    Returned =>
        /\ result # ValueError
        /\ result.ndvi.h = bands[4].h /\ result.ndvi.w = bands[4].w
        /\ result.ndbi.h = bands[6].h /\ result.ndbi.w = bands[6].w
        /\ \A p \in Pixels(result.ndvi.h, result.ndvi.w) :
              LET rb == bands[1].px[p]
                  nb == bands[2].px[p]
                  ra == bands[3].px[p]
                  na == bands[4].px[p]
              IN  /\ Near(result.ndvi.px[p], Cross(na, ra, nb, rb), Denom(na, ra) * Denom(nb, rb))
                  /\ Cross(na, ra, nb, rb) > 0 => result.ndvi.px[p].m > 0
                  /\ Cross(na, ra, nb, rb) < 0 => result.ndvi.px[p].m < 0
                  /\ Cross(na, ra, nb, rb) = 0 => result.ndvi.px[p] = F32Zero
                  /\ (na = ra /\ nb = rb) => result.ndvi.px[p] = F32Zero
                  /\ (na = 129 /\ ra = 127 /\ nb = rb) => result.ndvi.px[p] = F32Small
        /\ \A p \in Pixels(result.ndbi.h, result.ndbi.w) :
              LET nb == bands[2].px[p]
                  na == bands[4].px[p]
                  sb == bands[5].px[p]
                  sa == bands[6].px[p]
              IN  /\ Near(result.ndbi.px[p], Cross(sa, na, sb, nb), Denom(sa, na) * Denom(sb, nb))
                  /\ Cross(sa, na, sb, nb) > 0 => result.ndbi.px[p].m > 0
                  /\ Cross(sa, na, sb, nb) < 0 => result.ndbi.px[p].m < 0
                  /\ Cross(sa, na, sb, nb) = 0 => result.ndbi.px[p] = F32Zero
                  /\ (sa = na /\ sb = nb) => result.ndbi.px[p] = F32Zero

\* All before bands are 0 (index 0 by the epsilon) and after has NIR above
\* red and SWIR: NDVI rose by +1 and NDBI fell.
C8_Witness ==
    /\ Returned
    /\ bands[1].px[<<0, 0>>] = 0 /\ bands[2].px[<<0, 0>>] = 0 /\ bands[5].px[<<0, 0>>] = 0
    /\ bands[3].px[<<0, 0>>] = 0 /\ bands[4].px[<<0, 0>>] = MaxBand /\ bands[6].px[<<0, 0>>] = 1
    /\ result.ndvi.px[<<1, 1>>] = F32One
    /\ result.ndbi.px[<<0, 0>>].m < 0

====
